---- MODULE Spec2Model ----
(***************************************************************************)
(* Model of src/main.rs: the winit application shell (App) and the wgpu    *)
(* render context (State).  One action per ApplicationHandler callback;    *)
(* the methods of State are operators applied by those actions.            *)
(***************************************************************************)
EXTENDS Integers, Sequences, FiniteSets, TLC

(* ---------------------------------------------------------------------- *)
(* Input domains                                                           *)
(* ---------------------------------------------------------------------- *)

\* widths and heights a window can report (PhysicalSize<u32>)
Widths == {0, 800, 1024}

Heights == {0, 600, 768}

\* cursor coordinates delivered with CursorMoved
CursorXs == {0, 400, 1024}

CursorYs == {0, 300, 768}

PhysicalSize(w, h) == [width |-> w, height |-> h]

Sizes == {PhysicalSize(w, h) : w \in Widths, h \in Heights}

PhysicalPosition(px, py) == [x |-> px, y |-> py]

\* the two corners, and the middle column at every height
Positions ==
    {p \in {PhysicalPosition(px, py) : px \in CursorXs, py \in CursorYs} :
        \/ p.x = 400
        \/ p.x = 0 /\ p.y = 0
        \/ p.x = 1024 /\ p.y = 768}

\* Option<T>
None == <<>>

Some(v) == <<v>>

unwrap(o) == o[1]

\* what the platform and the GPU library can answer during State::new
GpuOutcomes == {"ok", "create_surface_failed", "no_adapter", "no_device", "no_formats"}

\* Result<SurfaceTexture, SurfaceError> of surface.get_current_texture()
SurfaceResults == {"Ok", "Lost", "Outdated", "OutOfMemory", "Timeout", "Other"}

(* ---------------------------------------------------------------------- *)
(* Window events                                                           *)
(* ---------------------------------------------------------------------- *)

NoSize == PhysicalSize(0, 0)

NoPosition == PhysicalPosition(0, 0)

WindowEvent(kind, key, key_state, size, position) ==
    [kind |-> kind, key |-> key, key_state |-> key_state,
     size |-> size, position |-> position]

CloseRequested == WindowEvent("CloseRequested", "-", "-", NoSize, NoPosition)

KeyboardInput(key, key_state) == WindowEvent("KeyboardInput", key, key_state, NoSize, NoPosition)

Resized(size) == WindowEvent("Resized", "-", "-", size, NoPosition)

RedrawRequested == WindowEvent("RedrawRequested", "-", "-", NoSize, NoPosition)

CursorMoved(position) == WindowEvent("CursorMoved", "-", "-", NoSize, position)

\* any event kind the handler has no arm for
Focused == WindowEvent("Focused", "-", "-", NoSize, NoPosition)

KeyCodes == {"Escape", "KeyA"}

ElementStates == {"Pressed", "Released"}

WindowEvents ==
    {CloseRequested, RedrawRequested, Focused}
      \cup {KeyboardInput(k, ks) : k \in KeyCodes, ks \in ElementStates}
      \cup {Resized(sz) : sz \in Sizes}
      \cup {CursorMoved(p) : p \in Positions}

(* ---------------------------------------------------------------------- *)
(* Calls a handler makes on the window, the GPU library and the logger     *)
(* ---------------------------------------------------------------------- *)

\* color is the clear color of a render pass, None for every other call
Call(op) == [op |-> op, width |-> 0, height |-> 0, color |-> None]

ConfigureCall(config) ==
    [op |-> "surface.configure", width |-> config.width, height |-> config.height,
     color |-> None]

(* ---------------------------------------------------------------------- *)
(* f64 colour channels as reduced fractions <<numerator, denominator>>     *)
(* ---------------------------------------------------------------------- *)

RECURSIVE Gcd(_, _)
Gcd(a, b) == IF b = 0 THEN a ELSE Gcd(b, a % b)

\* n / d in f64: x/0.0 is infinity, 0.0/0.0 is NaN
Div(n, d) ==
    IF d = 0 THEN (IF n = 0 THEN <<0, 0>> ELSE <<1, 0>>)
    ELSE <<n \div Gcd(n, d), d \div Gcd(n, d)>>

Color(r, g, b, a) == [r |-> r, g |-> g, b |-> b, a |-> a]

BLACK == Color(<<0, 1>>, <<0, 1>>, <<0, 1>>, <<1, 1>>)

(* ---------------------------------------------------------------------- *)
(* State (the render context)                                              *)
(* ---------------------------------------------------------------------- *)

\* The fields of State.  surface is the configuration the presentation
\* surface currently has inside the GPU library: None until the first
\* surface.configure.  device and queue carry no data the program reads.
StateOf(surface, surface_config, size, clear_color) ==
    [surface |-> surface, surface_config |-> surface_config,
     size |-> size, clear_color |-> clear_color]

SurfaceConfiguration(size) == [width |-> size.width, height |-> size.height]

GpuSetupCalls ==
    <<Call("Instance::new"), Call("create_surface"), Call("request_adapter"),
      Call("request_device"), Call("get_capabilities")>>

\* State::new without the test for a zero-sized window
new_unchecked_size(inner_size, gpu) ==
    IF gpu = "create_surface_failed"
    THEN [result |-> "Panic", value |-> None, trace |-> SubSeq(GpuSetupCalls, 1, 2)]
    ELSE IF gpu = "no_adapter"
    THEN [result |-> "Panic", value |-> None, trace |-> SubSeq(GpuSetupCalls, 1, 3)]
    ELSE IF gpu = "no_device"
    THEN [result |-> "Panic", value |-> None, trace |-> SubSeq(GpuSetupCalls, 1, 4)]
    ELSE IF gpu = "no_formats"
    THEN [result |-> "Panic", value |-> None, trace |-> GpuSetupCalls]
    ELSE [result |-> "Ok",
          value |-> Some(StateOf(None, SurfaceConfiguration(inner_size), inner_size, BLACK)),
          trace |-> GpuSetupCalls]

\* State::new: the result, the value built and the calls made on the way
new(inner_size, gpu) ==
    IF inner_size.width = 0 \/ inner_size.height = 0
    THEN [result |-> "Err", value |-> None, trace |-> <<>>]
    ELSE IF gpu = "create_surface_failed"
    THEN [result |-> "Panic", value |-> None, trace |-> SubSeq(GpuSetupCalls, 1, 2)]
    ELSE IF gpu = "no_adapter"
    THEN [result |-> "Panic", value |-> None, trace |-> SubSeq(GpuSetupCalls, 1, 3)]
    ELSE IF gpu = "no_device"
    THEN [result |-> "Panic", value |-> None, trace |-> SubSeq(GpuSetupCalls, 1, 4)]
    ELSE IF gpu = "no_formats"
    THEN [result |-> "Panic", value |-> None, trace |-> GpuSetupCalls]
    ELSE [result |-> "Ok",
          value |-> Some(StateOf(None, SurfaceConfiguration(inner_size), inner_size, BLACK)),
          trace |-> GpuSetupCalls]

\* resize writing the new width into both configuration fields
resize_height_from_width(self, new_size) ==
    IF new_size.width > 0 /\ new_size.height > 0 /\ self.size # new_size
    THEN LET config == [width |-> new_size.width, height |-> new_size.width]
         IN [self |-> [self EXCEPT !.size = new_size,
                                   !.surface_config = config,
                                   !.surface = Some(config)],
             trace |-> <<ConfigureCall(config)>>]
    ELSE [self |-> self, trace |-> <<>>]

\* resize without the test against the current size
resize_same_size(self, new_size) ==
    IF new_size.width > 0 /\ new_size.height > 0
    THEN LET config == [width |-> new_size.width, height |-> new_size.height]
         IN [self |-> [self EXCEPT !.size = new_size,
                                   !.surface_config = config,
                                   !.surface = Some(config)],
             trace |-> <<ConfigureCall(config)>>]
    ELSE [self |-> self, trace |-> <<>>]

\* resize without the test for a zero dimension
resize_zero_size(self, new_size) ==
    IF self.size # new_size
    THEN LET config == [width |-> new_size.width, height |-> new_size.height]
         IN [self |-> [self EXCEPT !.size = new_size,
                                   !.surface_config = config,
                                   !.surface = Some(config)],
             trace |-> <<ConfigureCall(config)>>]
    ELSE [self |-> self, trace |-> <<>>]

\* resize configuring the surface without storing the new size
resize_stale_size(self, new_size) ==
    IF new_size.width > 0 /\ new_size.height > 0 /\ self.size # new_size
    THEN LET config == [width |-> new_size.width, height |-> new_size.height]
         IN [self |-> [self EXCEPT !.surface_config = config,
                                   !.surface = Some(config)],
             trace |-> <<ConfigureCall(config)>>]
    ELSE [self |-> self, trace |-> <<>>]

\* State::resize
resize(self, new_size) ==
    IF new_size.width > 0 /\ new_size.height > 0 /\ self.size # new_size
    THEN LET config == [width |-> new_size.width, height |-> new_size.height]
         IN [self |-> [self EXCEPT !.size = new_size,
                                   !.surface_config = config,
                                   !.surface = Some(config)],
             trace |-> <<ConfigureCall(config)>>]
    ELSE [self |-> self, trace |-> <<>>]

\* input dividing each coordinate by the other dimension
input_swapped_axes(self, event) ==
    IF event.kind = "CursorMoved"
    THEN [self |-> [self EXCEPT !.clear_color =
                        Color(Div(event.position.x, self.size.height),
                              Div(event.position.y, self.size.width),
                              <<1, 1>>, <<1, 1>>)],
          handled |-> TRUE]
    ELSE [self |-> self, handled |-> FALSE]

\* input reporting every event as handled
input_handles_all(self, event) ==
    IF event.kind = "CursorMoved"
    THEN [self |-> [self EXCEPT !.clear_color =
                        Color(Div(event.position.x, self.size.width),
                              Div(event.position.y, self.size.height),
                              <<1, 1>>, <<1, 1>>)],
          handled |-> TRUE]
    ELSE [self |-> self, handled |-> TRUE]

\* State::input
input(self, event) ==
    IF event.kind = "CursorMoved"
    THEN [self |-> [self EXCEPT !.clear_color =
                        Color(Div(event.position.x, self.size.width),
                              Div(event.position.y, self.size.height),
                              <<1, 1>>, <<1, 1>>)],
          handled |-> TRUE]
    ELSE [self |-> self, handled |-> FALSE]

\* State::update
update(self) == self

RenderCalls ==
    <<Call("get_current_texture"), Call("create_view"), Call("create_command_encoder"),
      Call("begin_render_pass"), Call("finish"), Call("submit"), Call("present")>>

\* the calls of a successful render, the pass clearing to color
RenderPassCalls(color) ==
    [i \in DOMAIN RenderCalls |->
        IF RenderCalls[i].op = "begin_render_pass"
        THEN [RenderCalls[i] EXCEPT !.color = Some(color)]
        ELSE RenderCalls[i]]

\* render clearing to the initial color instead of the stored one
render_clears_black(self, acquired) ==
    IF acquired # "Ok"
    THEN [self |-> self, result |-> acquired, trace |-> SubSeq(RenderCalls, 1, 1)]
    ELSE [self |-> self, result |-> "Ok", trace |-> RenderPassCalls(BLACK)]

\* render skipping the frame itself when the acquisition times out
render_swallows_timeout(self, acquired) ==
    IF acquired = "Timeout"
    THEN [self |-> self, result |-> "Ok", trace |-> SubSeq(RenderCalls, 1, 1)]
    ELSE IF acquired # "Ok"
    THEN [self |-> self, result |-> acquired, trace |-> SubSeq(RenderCalls, 1, 1)]
    ELSE [self |-> self, result |-> "Ok", trace |-> RenderPassCalls(self.clear_color)]

\* State::render; acquired is what surface.get_current_texture() answers
render(self, acquired) ==
    IF acquired # "Ok"
    THEN [self |-> self, result |-> acquired, trace |-> SubSeq(RenderCalls, 1, 1)]
    ELSE [self |-> self, result |-> "Ok", trace |-> RenderPassCalls(self.clear_color)]

(* ---------------------------------------------------------------------- *)
(* App (the shell)                                                         *)
(* ---------------------------------------------------------------------- *)

VARIABLES
    window,            \* App.window: Option<Arc<Window>>
    state,             \* App.state: Option<State>
    exit,              \* event_loop.exit() has been called
    redraw_requested,  \* a window.request_redraw() is waiting to be delivered
    panicked,          \* an unwrap()/expect() has aborted the process
    calls,             \* the calls the last handler made, in order
    last,              \* the callback that ran last and what it was given
    latest_size,       \* history: construction size, then last positive Resized
    e2e,               \* history: progress through 800x600, Resized(0x0), Resized(1024x768)
    windows_created,   \* history: how many times create_window has been called
    news_called,       \* history: how many times State::new has been called
    frames,            \* history: 0 before the first render attempt, then 1, 2, 1, 2, ...
    last_cursor        \* history: position and stored size of the latest CursorMoved in Ready

vars == <<window, state, exit, redraw_requested, panicked, calls, last, latest_size, e2e,
          windows_created, news_called, frames, last_cursor>>

WindowHandle == "winit & wgpu"

Ready == state # None

\* inner_size is what window.inner_size() answered and acquired what
\* surface.get_current_texture() answered, when they were asked
Last(handler, event, inner_size, acquired, render_result, had_state) ==
    [handler |-> handler, event |-> event, inner_size |-> inner_size,
     acquired |-> acquired, render_result |-> render_result, had_state |-> had_state]

\* impl Default for App
Init ==
    /\ window = None
    /\ state = None
    /\ exit = FALSE
    /\ redraw_requested = FALSE
    /\ panicked = FALSE
    /\ calls = <<>>
    /\ last = Last("none", Focused, None, "-", "-", FALSE)
    /\ latest_size = None
    /\ e2e = 0
    /\ windows_created = 0
    /\ news_called = 0
    /\ frames = 0
    /\ last_cursor = None

\* the exit pattern matching Escape in any element state
is_exit_event_any_state(event) ==
    \/ event.kind = "CloseRequested"
    \/ /\ event.kind = "KeyboardInput"
       /\ event.key = "Escape"

\* the pattern of the first match arm: close request or Escape pressed
is_exit_event(event) ==
    \/ event.kind = "CloseRequested"
    \/ /\ event.kind = "KeyboardInput"
       /\ event.key_state = "Pressed"
       /\ event.key = "Escape"

Outcome(self, exits, redraws, render_result, trace) ==
    [self |-> self, exits |-> exits, redraws |-> redraws,
     render_result |-> render_result, trace |-> trace]

\* the match on state.render()'s result
handle_render_result(self, result) ==
    IF result = "Ok"
    THEN [self |-> self, exits |-> FALSE, trace |-> <<>>]
    ELSE IF result \in {"Lost", "Outdated"}
    THEN LET r == resize(self, self.size)
         IN [self |-> r.self, exits |-> FALSE, trace |-> r.trace]
    ELSE IF result \in {"OutOfMemory", "Other"}
    THEN [self |-> self, exits |-> TRUE,
          trace |-> <<Call("log::error"), Call("event_loop.exit")>>]
    ELSE [self |-> self, exits |-> FALSE, trace |-> <<Call("log::warn")>>]

\* the RedrawRequested arm asking for the next redraw only after a
\* successful render
redraw_arm_request_on_ok(self, has_window, acquired) ==
    LET updated   == update(self)
        rendered  == render(updated, acquired)
        handled   == handle_render_result(rendered.self, rendered.result)
        requested == IF has_window /\ rendered.result = "Ok"
                     THEN <<Call("request_redraw")>> ELSE <<>>
    IN Outcome(handled.self, handled.exits, has_window /\ rendered.result = "Ok",
               rendered.result,
               <<Call("update")>> \o rendered.trace \o handled.trace \o requested)

\* the RedrawRequested arm without the request for the next redraw
redraw_arm_without_request(self, has_window, acquired) ==
    LET updated   == update(self)
        rendered  == render(updated, acquired)
        handled   == handle_render_result(rendered.self, rendered.result)
    IN Outcome(handled.self, handled.exits, FALSE, rendered.result,
               <<Call("update")>> \o rendered.trace \o handled.trace)

\* the RedrawRequested arm
redraw_arm(self, has_window, acquired) ==
    LET requested == IF has_window THEN <<Call("request_redraw")>> ELSE <<>>
        updated   == update(self)
        rendered  == render(updated, acquired)
        handled   == handle_render_result(rendered.self, rendered.result)
    IN Outcome(handled.self, handled.exits, has_window, rendered.result,
               requested \o <<Call("update")>> \o rendered.trace \o handled.trace)

\* the None arm honouring the whole exit pattern
no_state_arm_exit_pattern(event) ==
    IF is_exit_event(event)
    THEN [exits |-> TRUE, trace |-> <<Call("log::warn"), Call("event_loop.exit")>>]
    ELSE [exits |-> FALSE, trace |-> <<>>]

\* window_event when self.state is None
no_state_arm(event) ==
    IF event.kind = "CloseRequested"
    THEN [exits |-> TRUE, trace |-> <<Call("log::warn"), Call("event_loop.exit")>>]
    ELSE [exits |-> FALSE, trace |-> <<>>]

\* window_event when self.state is Some(self)
ready_arm(self, has_window, event, acquired) ==
    LET offered == input(self, event)
    IN IF offered.handled
       THEN Outcome(offered.self, FALSE, FALSE, "-", <<>>)
       ELSE IF is_exit_event(event)
       THEN Outcome(offered.self, TRUE, FALSE, "-", <<Call("event_loop.exit")>>)
       ELSE IF event.kind = "Resized"
       THEN LET r == resize(offered.self, event.size)
            IN Outcome(r.self, FALSE, FALSE, "-", r.trace)
       ELSE IF event.kind = "RedrawRequested"
       THEN redraw_arm(offered.self, has_window, acquired)
       ELSE Outcome(offered.self, FALSE, FALSE, "-", <<>>)

IsPositive(size) == size.width > 0 /\ size.height > 0

\* history of the end-to-end resize scenario
E2eNext(event) ==
    IF /\ Ready
       /\ unwrap(state).size = PhysicalSize(800, 600)
       /\ event = Resized(PhysicalSize(0, 0))
    THEN 1
    ELSE IF e2e = 1 /\ event = Resized(PhysicalSize(1024, 768))
    THEN 2
    ELSE 0

\* the test made on the render context instead of the window
state_is_none == state = None

\* the test for a resumed signal after the first one
window_is_none == window = None

\* the match on the result of State::new with an Err arm that only logs
on_new_result_log_only(built) ==
    IF built.result = "Ok"
    THEN [state |-> built.value, exits |-> FALSE, trace |-> <<Call("log::info")>>]
    ELSE IF built.result = "Err"
    THEN [state |-> None, exits |-> FALSE, trace |-> <<Call("log::error")>>]
    ELSE [state |-> None, exits |-> FALSE, trace |-> <<>>]

\* the match on the result of State::new
on_new_result(built) ==
    IF built.result = "Ok"
    THEN [state |-> built.value, exits |-> FALSE, trace |-> <<Call("log::info")>>]
    ELSE IF built.result = "Err"
    THEN [state |-> None, exits |-> TRUE,
          trace |-> <<Call("log::error"), Call("event_loop.exit")>>]
    ELSE [state |-> None, exits |-> FALSE, trace |-> <<>>]

\* ApplicationHandler::resumed
resumed ==
    /\ ~panicked
    /\ IF window_is_none
       THEN \E created \in BOOLEAN, inner_size \in Sizes, gpu \in GpuOutcomes :
              IF ~created
              THEN /\ panicked' = TRUE
                   /\ last' = Last("resumed", Focused, None, "-", "-", Ready)
                   /\ calls' = <<Call("log::info"), Call("create_window")>>
                   /\ windows_created' = windows_created + 1
                   /\ UNCHANGED <<window, state, exit, latest_size, news_called>>
              ELSE LET built == new(inner_size, gpu)
                       o     == on_new_result(built)
                   IN /\ window' = Some(WindowHandle)
                      /\ last' = Last("resumed", Focused, Some(inner_size), "-", "-", Ready)
                      /\ state' = (IF built.result = "Ok" THEN o.state ELSE state)
                      /\ exit' = (exit \/ o.exits)
                      /\ panicked' = (built.result = "Panic")
                      /\ latest_size' =
                           (IF built.result = "Ok" THEN Some(inner_size) ELSE latest_size)
                      /\ calls' = <<Call("log::info"), Call("create_window")>>
                                    \o built.trace \o o.trace
                      /\ windows_created' = windows_created + 1
                      /\ news_called' = news_called + 1
       ELSE /\ calls' = <<Call("log::info")>>
            /\ last' = Last("resumed", Focused, None, "-", "-", Ready)
            /\ UNCHANGED <<window, state, exit, panicked, latest_size,
                           windows_created, news_called>>
    /\ e2e' = 0
    /\ UNCHANGED <<redraw_requested, frames, last_cursor>>

\* ApplicationHandler::window_event
window_event(event, acquired) ==
    /\ ~panicked
    /\ window # None
    /\ IF state = None
       THEN LET o == no_state_arm(event)
            IN /\ exit' = (exit \/ o.exits)
               /\ calls' = o.trace
               /\ redraw_requested' =
                    (IF event.kind = "RedrawRequested" THEN FALSE ELSE redraw_requested)
               /\ last' = Last("window_event", event, None, "-", "-", FALSE)
               /\ UNCHANGED <<state, latest_size, frames, last_cursor>>
       ELSE LET o == ready_arm(unwrap(state), window # None, event, acquired)
            IN /\ state' = Some(o.self)
               /\ exit' = (exit \/ o.exits)
               /\ calls' = o.trace
               /\ redraw_requested' =
                    (IF event.kind = "RedrawRequested" THEN o.redraws
                     ELSE redraw_requested)
               /\ last' = Last("window_event", event, None,
                               IF o.render_result = "-" THEN "-" ELSE acquired,
                               o.render_result, TRUE)
               /\ latest_size' =
                    (IF event.kind = "Resized" /\ IsPositive(event.size)
                     THEN Some(event.size) ELSE latest_size)
               /\ frames' = (IF o.render_result = "-" THEN frames
                             ELSE IF frames = 1 THEN 2 ELSE 1)
               /\ last_cursor' =
                    (IF event.kind = "CursorMoved"
                     THEN Some([position |-> event.position, size |-> unwrap(state).size])
                     ELSE last_cursor)
    /\ e2e' = E2eNext(event)
    /\ UNCHANGED <<window, panicked, windows_created, news_called>>

\* get_current_texture() is asked only while a RedrawRequested is handled
Acquirable(event) ==
    IF event.kind = "RedrawRequested" THEN SurfaceResults ELSE {"Ok"}

Next ==
    \/ resumed
    \/ \E event \in WindowEvents :
         \E acquired \in Acquirable(event) : window_event(event, acquired)

Spec == Init /\ [][Next]_vars

\* the platform delivering a RedrawRequested the program asked for
RedrawDelivery ==
    /\ redraw_requested
    /\ \E acquired \in SurfaceResults : window_event(RedrawRequested, acquired)

\* the platform delivers every redraw that was requested
FairSpec == Init /\ [][Next]_vars /\ WF_vars(RedrawDelivery)

(* ---------------------------------------------------------------------- *)
(* Properties                                                              *)
(* ---------------------------------------------------------------------- *)

\* how often the last handler made the call op
CountOp(trace, op) == Cardinality({i \in DOMAIN trace : trace[i].op = op})

Made(trace, op) == CountOp(trace, op) > 0

\* the last callback was a window event handled with a render context
HandledReady == last.handler = "window_event" /\ last.had_state

\* C1: in Ready, a redraw whose render returns Lost or Outdated invokes
\* surface.configure with the current stored size before the handler
\* returns, and does not request event-loop exit.
C1_LostOrOutdatedReconfigures ==
    (HandledReady /\ last.render_result \in {"Lost", "Outdated"})
        => /\ ConfigureCall(SurfaceConfiguration(unwrap(state).size)) \in
                 {calls[i] : i \in DOMAIN calls}
           /\ ~Made(calls, "event_loop.exit")

\* C2: once State::new has succeeded the presentation surface is configured
\* with the stored width and height, so every render in Ready, the first
\* one included, acts on a surface configured at the stored size.
C2_SurfaceConfiguredInReady ==
    Ready => unwrap(state).surface = Some(SurfaceConfiguration(unwrap(state).size))

\* C3: a Resized event with a positive size that differs from the stored
\* size makes the stored size and the surface-configuration width and height
\* that size, and invokes surface.configure exactly once, with those
\* dimensions.
C3_ResizeToNewSize ==
    [][(/\ Ready
        /\ last'.handler = "window_event"
        /\ last'.event.kind = "Resized"
        /\ last'.event.size.width > 0
        /\ last'.event.size.height > 0
        /\ last'.event.size # unwrap(state).size)
       => /\ unwrap(state').size = last'.event.size
          /\ unwrap(state').surface_config.width = last'.event.size.width
          /\ unwrap(state').surface_config.height = last'.event.size.height
          /\ CountOp(calls', "surface.configure") = 1
          /\ Len(calls') = 1
          /\ calls'[1].op = "surface.configure"
          /\ calls'[1].width = last'.event.size.width
          /\ calls'[1].height = last'.event.size.height]_vars

C3_Witness ==
    /\ HandledReady
    /\ last.event = Resized(PhysicalSize(1024, 600))
    /\ unwrap(state).size = PhysicalSize(1024, 600)
    /\ Len(calls) = 1
    /\ calls[1].op = "surface.configure"
    /\ calls[1].width = 1024
    /\ calls[1].height = 600

\* C4: a resize to a size with a zero width or height, or to the stored
\* size (from a Resized event or from the Lost/Outdated arm), leaves the
\* whole render context unchanged and does not invoke surface.configure.
C4_ResizeNoOp ==
    [][(/\ Ready
        /\ last'.handler = "window_event"
        /\ \/ /\ last'.event.kind = "Resized"
              /\ \/ last'.event.size.width = 0
                 \/ last'.event.size.height = 0
                 \/ last'.event.size = unwrap(state).size
           \/ last'.render_result \in {"Lost", "Outdated"})
       => /\ state' = state
          /\ ~Made(calls', "surface.configure")]_vars

C4_Witness ==
    /\ HandledReady
    /\ last.event = Resized(PhysicalSize(800, 0))
    /\ unwrap(state).size = PhysicalSize(1024, 768)
    /\ unwrap(state).surface = Some(SurfaceConfiguration(PhysicalSize(1024, 768)))
    /\ unwrap(state).clear_color # BLACK
    /\ calls = <<>>


\* the GPU objects State::new creates
GpuCalls == {GpuSetupCalls[i] : i \in DOMAIN GpuSetupCalls}

\* C5: when the window's inner size has a zero dimension at the first
\* resumed signal, State::new fails before creating any GPU object, the
\* shell requests exit, the render context stays absent, and a shell whose
\* window exists without a render context never becomes Ready.
C5_ZeroSizeConstructionFails ==
    /\ [](( /\ last.handler = "resumed"
            /\ last.inner_size # None
            /\ \E sz \in Sizes : /\ last.inner_size = Some(sz)
                                 /\ (sz.width = 0 \/ sz.height = 0))
          => /\ state = None
             /\ exit
             /\ ~panicked
             /\ \A i \in DOMAIN calls : calls[i] \notin GpuCalls
             /\ Made(calls, "event_loop.exit"))
    /\ [][(window # None /\ state = None) => state' = None]_vars

C5_Witness ==
    /\ last.handler = "resumed"
    /\ last.inner_size = Some(PhysicalSize(0, 600))
    /\ window # None
    /\ state = None
    /\ exit
    /\ ~panicked
    /\ calls = <<Call("log::info"), Call("create_window"),
                 Call("log::error"), Call("event_loop.exit")>>

\* the responses the last handler made to a render outcome
Responses ==
    (IF Made(calls, "surface.configure") THEN {"reconfigure"} ELSE {})
      \cup (IF Made(calls, "event_loop.exit") THEN {"exit"} ELSE {})
      \cup (IF Made(calls, "log::warn") THEN {"warn"} ELSE {})

\* C6: the redraw handler answers every render outcome with exactly one
\* response: success with none, Lost and Outdated with the reconfigure
\* only, OutOfMemory and Other with the exit request only, Timeout with the
\* warning only.
C6_RenderOutcomeClassification ==
    [][(Ready /\ last'.handler = "window_event" /\ last'.event.kind = "RedrawRequested")
       => /\ last'.render_result \in SurfaceResults
          /\ last'.render_result = "Ok" => Responses' = {}
          /\ last'.render_result \in {"Lost", "Outdated"} => Responses' = {"reconfigure"}
          /\ last'.render_result \in {"OutOfMemory", "Other"} => Responses' = {"exit"}
          /\ last'.render_result = "Timeout"
               => (Responses' = {"warn"} /\ state' = state /\ exit' = exit)]_vars

\* C7: while the render context is absent, CloseRequested requests exit and
\* every other window event changes no shell state and makes no call at all
\* (no exit request, no redraw request, no render).
C7_NotReadyOnlyCloseHonoured ==
    [][(state = None /\ last'.handler = "window_event")
       => IF last'.event.kind = "CloseRequested"
          THEN /\ exit'
               /\ Made(calls', "event_loop.exit")
               /\ UNCHANGED <<window, state>>
          ELSE /\ UNCHANGED <<window, state, exit, redraw_requested, panicked>>
               /\ calls' = <<>>]_vars

C7_Witness ==
    /\ last.handler = "window_event"
    /\ ~last.had_state
    /\ last.event = KeyboardInput("Escape", "Pressed")
    /\ state = None
    /\ calls = <<>>

\* C8: in Ready a window event requests exit if and only if it is
\* CloseRequested, Escape in the Pressed state, or a RedrawRequested whose
\* render returns OutOfMemory or Other.
C8_ExitExactlyOnFatalEvents ==
    [][(Ready /\ last'.handler = "window_event")
       => LET fatal == \/ last'.event.kind = "CloseRequested"
                       \/ last'.event = KeyboardInput("Escape", "Pressed")
                       \/ /\ last'.event.kind = "RedrawRequested"
                          /\ last'.render_result \in {"OutOfMemory", "Other"}
          IN /\ Made(calls', "event_loop.exit") <=> fatal
             /\ exit' = (exit \/ fatal)]_vars

C8_Witness ==
    /\ HandledReady
    /\ last.event = KeyboardInput("Escape", "Released")
    /\ ~exit
    /\ calls = <<>>

\* C9: in Ready each RedrawRequested makes exactly one request for the next
\* redraw, then one update, then exactly one render attempt, in that order,
\* whatever the render outcome is.
C9_RedrawRequestsUpdatesRenders ==
    (HandledReady /\ last.event.kind = "RedrawRequested")
        => /\ Len(calls) >= 3
           /\ calls[1].op = "request_redraw"
           /\ calls[2].op = "update"
           /\ calls[3].op = "get_current_texture"
           /\ CountOp(calls, "request_redraw") = 1
           /\ CountOp(calls, "update") = 1
           /\ CountOp(calls, "get_current_texture") = 1
           /\ redraw_requested
           /\ last.render_result \in SurfaceResults

C9_Witness ==
    /\ HandledReady
    /\ last.event.kind = "RedrawRequested"
    /\ last.render_result = "OutOfMemory"
    /\ redraw_requested
    /\ calls[1].op = "request_redraw"

\* C10: from a Ready shell at 800x600, Resized(0x0) then Resized(1024x768)
\* requests no exit, aborts nothing and leaves the surface configured at
\* 1024x768 with stored size 1024x768; after any Resized events in Ready the
\* stored size is the latest delivered positive size, or the construction
\* size if there is none.
C10_ResizeSequence ==
    /\ [](e2e = 2 => /\ Ready
                      /\ unwrap(state).size = PhysicalSize(1024, 768)
                      /\ unwrap(state).surface = Some([width |-> 1024, height |-> 768])
                      /\ unwrap(state).surface_config = [width |-> 1024, height |-> 768])
    /\ [](Ready => Some(unwrap(state).size) = latest_size)
    /\ [][(last'.handler = "window_event" /\ last'.event.kind = "Resized")
           => (exit' = exit /\ panicked' = panicked)]_vars

C10_Witness ==
    /\ e2e = 2
    /\ ~exit
    /\ ~panicked
    /\ unwrap(state).surface = Some([width |-> 1024, height |-> 768])

\* the channel c is the finite number n / d
IsQuotient(c, n, d) == d # 0 /\ c[2] > 0 /\ c[1] * d = n * c[2]

\* the channel c lies in [0, 1]
InUnitInterval(c) == c[2] > 0 /\ 0 <= c[1] /\ c[1] <= c[2]

\* C11: a CursorMoved at (x, y) inside the window bounds of the stored size
\* sets the clear color to (x / width, y / height, 1.0, 1.0), red and green
\* in [0, 1]; (400, 300) in an 800x600 window gives (0.5, 0.5, 1.0, 1.0).
C11_CursorSetsClearColor ==
    [][(/\ Ready
        /\ last'.handler = "window_event"
        /\ last'.event.kind = "CursorMoved"
        /\ last'.event.position.x <= unwrap(state).size.width
        /\ last'.event.position.y <= unwrap(state).size.height)
       => LET color == unwrap(state').clear_color
              pos   == last'.event.position
              size  == unwrap(state).size
          IN /\ IsQuotient(color.r, pos.x, size.width)
             /\ IsQuotient(color.g, pos.y, size.height)
             /\ InUnitInterval(color.r)
             /\ InUnitInterval(color.g)
             /\ color.b = <<1, 1>>
             /\ color.a = <<1, 1>>
             /\ (pos = PhysicalPosition(400, 300) /\ size = PhysicalSize(800, 600))
                  => color = Color(<<1, 2>>, <<1, 2>>, <<1, 1>>, <<1, 1>>)]_vars

C11_Witness ==
    /\ HandledReady
    /\ last.event = CursorMoved(PhysicalPosition(400, 300))
    /\ unwrap(state).size = PhysicalSize(800, 600)
    /\ unwrap(state).clear_color = Color(<<1, 2>>, <<1, 2>>, <<1, 1>>, <<1, 1>>)

\* C12: the window is created at most once and State::new is invoked at
\* most once, both during the first resumed signal; every later resumed
\* signal leaves window, render context and exit status unchanged, also
\* after a failed construction.
C12_InitialisedOnce ==
    /\ [](windows_created <= 1 /\ news_called <= 1)
    /\ [][(windows_created' # windows_created \/ news_called' # news_called)
           => (window = None /\ last'.handler = "resumed")]_vars
    /\ [][(window # None /\ last'.handler = "resumed")
           => /\ UNCHANGED <<window, state, exit, windows_created, news_called>>
              /\ ~Made(calls', "create_window")
              /\ \A i \in DOMAIN calls' : calls'[i] \notin GpuCalls]_vars

C12_Witness ==
    /\ last.handler = "resumed"
    /\ last.inner_size = None
    /\ window # None
    /\ state = None
    /\ windows_created = 1
    /\ news_called = 1
    /\ calls = <<Call("log::info")>>

\* C13: whenever the render context exists, the stored size and the
\* surface-configuration width and height are equal and positive, every
\* surface.configure passes a positive width and height, and no channel of
\* the clear color comes from a division by zero.
C13_SizesPositiveAndEqual ==
    /\ Ready =>
         /\ unwrap(state).size.width > 0
         /\ unwrap(state).size.height > 0
         /\ unwrap(state).surface_config.width = unwrap(state).size.width
         /\ unwrap(state).surface_config.height = unwrap(state).size.height
         /\ unwrap(state).clear_color.r[2] # 0
         /\ unwrap(state).clear_color.g[2] # 0
    /\ \A i \in DOMAIN calls :
         calls[i].op = "surface.configure" => (calls[i].width > 0 /\ calls[i].height > 0)

C13_Witness ==
    /\ HandledReady
    /\ last.event.kind = "CursorMoved"
    /\ unwrap(state).size = PhysicalSize(1024, 600)
    /\ unwrap(state).surface_config = [width |-> 1024, height |-> 600]
    /\ unwrap(state).surface = Some([width |-> 1024, height |-> 600])
    /\ unwrap(state).clear_color.r = <<25, 64>>

\* the calls that are, or are made by, resize, update and render
ContextOps ==
    {"surface.configure", "update"} \cup {RenderCalls[i].op : i \in DOMAIN RenderCalls}

\* C14: between callbacks of the running process the render context is
\* present only if the window is, and the window is present without a
\* render context only if exit has been requested; resize, input, update
\* and render run only in a callback that found both present.
C14_ShellStates ==
    /\ Ready => window # None
    /\ (~panicked /\ window # None /\ state = None) => exit
    /\ ~panicked =>
         \/ window = None /\ state = None /\ ~exit
         \/ window # None /\ state # None
         \/ exit
    /\ (\E i \in DOMAIN calls : calls[i].op \in ContextOps)
         => (last.had_state /\ window # None /\ Ready)
    /\ (last.handler = "window_event" /\ ~last.had_state)
         => (state = None /\ last_cursor = None /\ frames = 0)

C14_Witness ==
    /\ last.handler = "window_event"
    /\ last.event = RedrawRequested
    /\ ~last.had_state
    /\ window # None
    /\ state = None
    /\ exit
    /\ ~panicked
    /\ calls = <<>>

\* where the last handler made the call op
IndexOf(trace, op) == CHOOSE i \in DOMAIN trace : trace[i].op = op

\* C15: a successful render acquires the texture, encodes one clear pass,
\* submits and presents, in that order, with exactly one submit and one
\* present; a failed acquisition is returned unchanged to the caller,
\* nothing is encoded, submitted or presented, and the render context is
\* left as it was.
C15_RenderStepsAndErrors ==
    [][(Ready /\ last'.handler = "window_event" /\ last'.event.kind = "RedrawRequested")
       => /\ last'.acquired \in SurfaceResults
          /\ last'.render_result = last'.acquired
          /\ CountOp(calls', "get_current_texture") = 1
          /\ IF last'.acquired = "Ok"
             THEN /\ CountOp(calls', "begin_render_pass") = 1
                  /\ CountOp(calls', "submit") = 1
                  /\ CountOp(calls', "present") = 1
                  /\ IndexOf(calls', "get_current_texture") < IndexOf(calls', "begin_render_pass")
                  /\ IndexOf(calls', "begin_render_pass") < IndexOf(calls', "submit")
                  /\ IndexOf(calls', "submit") < IndexOf(calls', "present")
             ELSE /\ ~Made(calls', "create_command_encoder")
                  /\ ~Made(calls', "begin_render_pass")
                  /\ ~Made(calls', "submit")
                  /\ ~Made(calls', "present")
                  /\ state' = state]_vars

C15_Witness ==
    /\ HandledReady
    /\ last.event.kind = "RedrawRequested"
    /\ last.acquired = "Ok"
    /\ last.render_result = "Ok"
    /\ Len(calls) = 9
    /\ calls[3].op = "get_current_texture"
    /\ calls[6].op = "begin_render_pass"
    /\ calls[8].op = "submit"
    /\ calls[9].op = "present"

\* C16: in Ready input reports an event handled exactly when it is a
\* CursorMoved; a CursorMoved changes only the clear color and is dispatched
\* no further (no call, stored size, surface configuration, exit status and
\* pending redraw unchanged); any other event leaves the clear color as it
\* was.
C16_InputHandlesCursorOnly ==
    /\ [](Ready => \A event \in WindowEvents :
                     input(unwrap(state), event).handled <=> event.kind = "CursorMoved")
    /\ [][(Ready /\ last'.handler = "window_event")
           => IF last'.event.kind = "CursorMoved"
              THEN /\ unwrap(state').size = unwrap(state).size
                   /\ unwrap(state').surface_config = unwrap(state).surface_config
                   /\ unwrap(state').surface = unwrap(state).surface
                   /\ calls' = <<>>
                   /\ UNCHANGED <<window, exit, redraw_requested, panicked, frames>>
              ELSE unwrap(state').clear_color = unwrap(state).clear_color]_vars

C16_Witness ==
    /\ HandledReady
    /\ last.event = CursorMoved(PhysicalPosition(1024, 768))
    /\ unwrap(state).size = PhysicalSize(800, 600)
    /\ unwrap(state).clear_color.r = <<32, 25>>
    /\ redraw_requested
    /\ ~exit
    /\ calls = <<>>

\* C17: when the platform delivers every requested redraw, then after the
\* first RedrawRequested handled in Ready render attempts keep coming until
\* exit is requested: a redraw stays pending through every other event and
\* every non-fatal render outcome (the count of render attempts, kept
\* modulo two in frames, never rests on either value unless exit has been
\* requested).  The program asks for a redraw only inside the
\* RedrawRequested handler.
C17_RedrawLoop ==
    /\ [](frames > 0 => (Ready /\ redraw_requested))
    /\ [][(Made(calls', "request_redraw") \/ (redraw_requested' /\ ~redraw_requested))
           => /\ Ready
              /\ last'.handler = "window_event"
              /\ last'.event.kind = "RedrawRequested"]_vars
    /\ []<>(frames # 1 \/ exit)
    /\ []<>(frames # 2 \/ exit)

C17_Witness ==
    /\ HandledReady
    /\ last.event.kind = "RedrawRequested"
    /\ last.render_result = "Timeout"
    /\ frames = 2
    /\ redraw_requested
    /\ ~exit
    /\ last_cursor # None

\* the clear colors of the render passes the last handler began
ClearedTo == {calls[i].color : i \in {j \in DOMAIN calls : calls[j].op = "begin_render_pass"}}

\* C18: every render pass clears to the clear color stored at that moment:
\* opaque black before the first CursorMoved, afterwards the quotients of
\* the latest CursorMoved position by the size stored when it was handled,
\* whatever was resized since; alpha is 1.0 in every reachable state.
C18_ClearColorRendered ==
    Ready =>
        LET color == unwrap(state).clear_color
        IN /\ color.a = <<1, 1>>
           /\ ClearedTo \subseteq {Some(color)}
           /\ (HandledReady /\ last.render_result = "Ok") => ClearedTo = {Some(color)}
           /\ IF last_cursor = None
              THEN color = Color(<<0, 1>>, <<0, 1>>, <<0, 1>>, <<1, 1>>)
              ELSE LET moved == unwrap(last_cursor)
                   IN /\ IsQuotient(color.r, moved.position.x, moved.size.width)
                      /\ IsQuotient(color.g, moved.position.y, moved.size.height)
                      /\ color.b = <<1, 1>>

C18_Witness ==
    /\ HandledReady
    /\ last.render_result = "Ok"
    /\ last_cursor = Some([position |-> PhysicalPosition(400, 300),
                            size |-> PhysicalSize(800, 600)])
    /\ unwrap(state).size = PhysicalSize(1024, 768)
    /\ ClearedTo = {Some(Color(<<1, 2>>, <<1, 2>>, <<1, 1>>, <<1, 1>>))}

====
